---------------------------- MODULE Spec2Model ----------------------------
(***************************************************************************)
(* A model of espmole::MqttTransport (src/src/MqttTransport.cpp, header    *)
(* src/unnamed/part_001): the MQTT transport adapter of ESPMole.           *)
(*                                                                         *)
(* The adapter's fields are the variables that carry the names of the      *)
(* source (trailing underscore).  The MQTT clients, the clock, the         *)
(* dispatcher and the host application are the environment.  C strings     *)
(* are TLA+ strings (without the terminating NUL); a nullable pointer to   *)
(* a string is <<>> (nullptr) or <<s>>.                                    *)
(***************************************************************************)
EXTENDS Integers, Sequences, FiniteSets, TLC

(***************************************************************************)
(* Bounds of the model.                                                    *)
(***************************************************************************)
\* The millisecond counter of millis() and lastReconnectAttempt_ is a
\* uint32_t; the model keeps the modular arithmetic at a reduced width.
MillisBits == 3
\* The number of clients begin() may create in one behaviour of the
\* messaging, timed and retry specifications; the specification of the
\* adapter's life allows one more (MaxOwned), so that a repeated begin() is
\* followed.
MaxBegin == 1
MaxOwned == MaxBegin + 1

Modulus == 2 ^ MillisBits

(***************************************************************************)
(* Program constants.                                                      *)
(***************************************************************************)
TOPIC_MAX_LEN == 80
DEVICE_ID_MAX_LEN == 32
RESPONSE_BUFFER_SIZE == 256
\* QoS of the last-will and of the birth message.
LWT_QOS == 1

(***************************************************************************)
(* C strings.                                                              *)
(***************************************************************************)
NullStr == <<>>
Some(s) == <<s>>
IsNull(p) == p = <<>>
Deref(p) == p[1]

Min(a, b) == IF a <= b THEN a ELSE b

\* The character of s at 0-based offset i; the terminating NUL at Len(s).
NUL == "\\0"
CharAt(s, i) == IF i < Len(s) THEN SubSeq(s, i + 1, i + 1) ELSE NUL

\* strlen
Strlen(s) == Len(s)

\* snprintf(buf, n, "%s", s) and strncpy(buf, s, n - 1); buf[n - 1] = 0:
\* at most n - 1 characters are kept.
Truncate(s, n) == SubSeq(s, 1, Min(Len(s), n - 1))

\* strcmp(a, b) == 0
RECURSIVE StrcmpFrom(_, _, _)
StrcmpFrom(a, b, i) ==
    IF CharAt(a, i) # CharAt(b, i) THEN FALSE
    ELSE IF CharAt(a, i) = NUL THEN TRUE
    ELSE StrcmpFrom(a, b, i + 1)
StrcmpEq(a, b) == StrcmpFrom(a, b, 0)

\* strncmp(a, b, n) == 0: the first n characters agree, or both strings end
\* before a difference is found.
RECURSIVE StrncmpFrom(_, _, _, _)
StrncmpFrom(a, b, n, i) ==
    IF i >= n THEN TRUE
    ELSE IF CharAt(a, i) # CharAt(b, i) THEN FALSE
    ELSE IF CharAt(a, i) = NUL THEN TRUE
    ELSE StrncmpFrom(a, b, n, i + 1)
StrncmpEq(a, b, n) == StrncmpFrom(a, b, n, 0)

\* "%02X" of one byte.
HexDigits == "0123456789ABCDEF"
HexDigit(n) == SubSeq(HexDigits, n + 1, n + 1)
Hex02X(byte) == HexDigit(byte \div 16) \o HexDigit(byte % 16)

(***************************************************************************)
(* Inputs.                                                                 *)
(***************************************************************************)
\* WiFi.macAddress(): the identity source of the device.
MacAddress == <<222, 173, 190, 239, 0, 1>>

DefaultBaseTopic == "espmole"

\* MqttConfig with the member initialisers of the header; the reconnect
\* interval (5000 ms there) is the largest interval of the reduced clock.
MaxInterval == Modulus - 3
DefaultConfig ==
    [ broker |-> NullStr, port |-> 1883, username |-> NullStr,
      password |-> NullStr, clientId |-> NullStr,
      baseTopic |-> Some(DefaultBaseTopic), deviceId |-> NullStr,
      enableStatus |-> TRUE, birthPayload |-> "online",
      lwtPayload |-> "offline", retainStatus |-> TRUE,
      reconnectInterval |-> MaxInterval, qos |-> 0 ]

\* The configurations a host passes to the standalone constructor: a
\* broker with presence on and off, and no broker.
Standalone(broker, deviceId, baseTopic, status, retain, interval, qos) ==
    [ DefaultConfig EXCEPT !.broker = broker, !.deviceId = deviceId,
                           !.baseTopic = baseTopic, !.enableStatus = status,
                           !.retainStatus = retain,
                           !.reconnectInterval = interval, !.qos = qos ]
Broker == Some("mqtt.example.com")
Configs ==
    { DefaultConfig,
      Standalone(Broker, Some("test123"), Some("espmole"), TRUE, FALSE, 0, 1),
      Standalone(Broker, NullStr, NullStr, FALSE, TRUE, MaxInterval, 0),
      Standalone(NullStr, Some("test123"), Some("home"), TRUE, TRUE, 0, 1) }

\* The configurations of the timed specification: every reconnect interval.
ReconnectIntervals == {0, 2, MaxInterval}
ClockConfigs ==
    { DefaultConfig } \cup
    { Standalone(Broker, Some("test123"), NullStr, TRUE, TRUE, i, 0) :
        i \in ReconnectIntervals }

(***************************************************************************)
(* The MQTT clients.                                                       *)
(***************************************************************************)
NullPtr == <<>>
\* The AsyncMqttClient of the host application (integration mode).
ExtAsync == <<"external">>
\* The PubSubClient of the host application (integration mode).
ExtPubSub == <<"pubsub">>
\* The k-th AsyncMqttClient created by begin().
Owned(k) == <<"owned", k>>
OwnedClients == { Owned(k) : k \in 1..MaxOwned }
AsyncClients == {ExtAsync} \cup OwnedClients

\* PubSubClient::publish and PubSubClient::subscribe take no QoS.
NoQos == -1

\* One call on a client, as issued by the adapter.
Call(c, fn, topic, qos, retain, payload, len) ==
    [ client |-> c, fn |-> fn, topic |-> topic, qos |-> qos,
      retain |-> retain, payload |-> payload, len |-> len ]
Setup(c, fn, arg) == Call(c, fn, arg, NoQos, FALSE, "", 0)

VARIABLES
    \* --- the adapter's fields -------------------------------------------
    dispatcher_,            \* TRUE iff the Dispatcher* is not null
    config_,
    standaloneMode_,
    cmdTopic_, respTopic_, statusTopic_, eventTopic_, deviceId_,
    asyncClient_, pubSubClient_, ownsClient_,
    userCallback_,          \* TRUE iff a user callback is registered
    wasConnected_,
    lastReconnectAttempt_,
    \* --- the environment ------------------------------------------------
    hasPubSub,              \* ESPMOLE_HAS_PUBSUBCLIENT of the build
    clients,                \* state and last-will of each AsyncMqttClient
    pubSubConnected,        \* PubSubClient::connected() of the host's client
    nOwned,                 \* clients created by begin() so far
    millis,                 \* millis()
    sincePollAttempt,       \* time since poll() last issued connect(), counted
                            \* up to MaxInterval + 1; -1: never
    \* --- what the last operation did ------------------------------------
    last

adapterVars == << dispatcher_, config_, standaloneMode_, cmdTopic_, respTopic_,
                  statusTopic_, eventTopic_, deviceId_, asyncClient_,
                  pubSubClient_, ownsClient_, userCallback_, wasConnected_,
                  lastReconnectAttempt_ >>
envVars == << hasPubSub, clients, pubSubConnected, nOwned, millis >>
histVars == << sincePollAttempt >>
vars == << adapterVars, envVars, histVars, last >>

topicVars == << cmdTopic_, respTopic_, statusTopic_, eventTopic_, deviceId_ >>

\* The record of an operation: its name and inputs, its return value, the
\* calls it made on MQTT clients, the requests it passed to the dispatcher
\* and what the dispatcher answered, the invocations of the user callback
\* and, for a poll that issued a
\* connect attempt, the time since the previous such attempt (-1: none).
Idle ==
    [ op |-> "construct", topic |-> "", payload |-> "", len |-> 0,
      index |-> 0, total |-> 0, ret |-> FALSE, calls |-> <<>>,
      ingest |-> <<>>, response |-> "", user |-> <<>>, gap |-> -1 ]
Did(op, calls) == [ Idle EXCEPT !.op = op, !.calls = calls ]

(***************************************************************************)
(* Construction.                                                           *)
(***************************************************************************)
\* MqttTransport(Dispatcher*) leaves config_ default and standaloneMode_
\* false; MqttTransport(Dispatcher*, const MqttConfig&) copies the config
\* and sets standaloneMode_.  Both zero the five buffers.
Construct(dispatchers, configs, builds) ==
    /\ dispatcher_ \in dispatchers
    /\ \E standalone \in BOOLEAN :
         /\ standaloneMode_ = standalone
         /\ config_ \in (IF standalone THEN configs ELSE {DefaultConfig})
    /\ cmdTopic_ = "" /\ respTopic_ = "" /\ statusTopic_ = ""
    /\ eventTopic_ = "" /\ deviceId_ = ""
    /\ asyncClient_ = NullPtr /\ pubSubClient_ = NullPtr
    /\ ownsClient_ = FALSE
    /\ userCallback_ = FALSE
    /\ wasConnected_ = FALSE
    /\ lastReconnectAttempt_ = 0
    /\ hasPubSub \in builds
    /\ clients = [ c \in AsyncClients |->
                     [ state |-> IF c = ExtAsync THEN "disconnected" ELSE "none",
                       will |-> <<>> ] ]
    /\ pubSubConnected = FALSE
    /\ nOwned = 0
    /\ millis = 0
    /\ sincePollAttempt = -1
    /\ last = Idle

Init == Construct(BOOLEAN, Configs, BOOLEAN)
\* The adapter's life is also followed for a device id longer than the
\* deviceId_ buffer.
LongDeviceId == "0123456789ABCDEF0123456789ABCDEF0"
InitLife ==
    Construct(BOOLEAN,
              Configs \cup { Standalone(NullStr, Some(LongDeviceId), Some("espmole"),
                                        FALSE, TRUE, MaxInterval, 0) },
              BOOLEAN)
\* The timed specification has a dispatcher and every reconnect interval.
InitClock == Construct({TRUE}, ClockConfigs, BOOLEAN)

(***************************************************************************)
(* Topic building.                                                         *)
(***************************************************************************)
\* buildDeviceId(): the configured id, or the MAC address in upper-case hex.
MacHex == Hex02X(MacAddress[1]) \o Hex02X(MacAddress[2]) \o Hex02X(MacAddress[3])
          \o Hex02X(MacAddress[4]) \o Hex02X(MacAddress[5]) \o Hex02X(MacAddress[6])
BuildDeviceId(cfg) ==
    IF ~IsNull(cfg.deviceId)
    THEN Truncate(Deref(cfg.deviceId), DEVICE_ID_MAX_LEN)
    ELSE Truncate(MacHex, DEVICE_ID_MAX_LEN)

\* const char* base = config_.baseTopic ? config_.baseTopic : "espmole";
Base(cfg) == IF ~IsNull(cfg.baseTopic) THEN Deref(cfg.baseTopic) ELSE DefaultBaseTopic

\* Mutant: the separator before the suffix is missing from the format.
FormatTopic_NoSeparator(base, id, suffix) ==
    Truncate(base \o "/" \o id \o suffix, TOPIC_MAX_LEN)

\* snprintf(buf, TOPIC_MAX_LEN, "%s/%s/<suffix>", base, deviceId_)
FormatTopic(base, id, suffix) ==
    Truncate(base \o "/" \o id \o "/" \o suffix, TOPIC_MAX_LEN)

\* Mutant: each topic is appended to what its buffer holds.
BuildTopics_Appends ==
    LET id == BuildDeviceId(config_)
        base == Base(config_)
    IN  /\ deviceId_' = id
        /\ cmdTopic_' = Truncate(cmdTopic_ \o FormatTopic(base, id, "cmd"), TOPIC_MAX_LEN)
        /\ respTopic_' = Truncate(respTopic_ \o FormatTopic(base, id, "resp"), TOPIC_MAX_LEN)
        /\ statusTopic_' = Truncate(statusTopic_ \o FormatTopic(base, id, "status"), TOPIC_MAX_LEN)
        /\ eventTopic_' = Truncate(eventTopic_ \o FormatTopic(base, id, "event"), TOPIC_MAX_LEN)

\* buildTopics()
BuildTopics ==
    LET id == BuildDeviceId(config_)
        base == Base(config_)
    IN  /\ deviceId_' = id
        /\ cmdTopic_' = FormatTopic(base, id, "cmd")
        /\ respTopic_' = FormatTopic(base, id, "resp")
        /\ statusTopic_' = FormatTopic(base, id, "status")
        /\ eventTopic_' = FormatTopic(base, id, "event")

\* The last-will that begin() and attachTo(AsyncMqttClient*) register.
Will == [ topic |-> statusTopic_, qos |-> LWT_QOS,
          retain |-> config_.retainStatus, payload |-> config_.lwtPayload ]
SetWillCall(c) ==
    Call(c, "setWill", statusTopic_, LWT_QOS, config_.retainStatus,
         config_.lwtPayload, Strlen(config_.lwtPayload))

Connected(c) == clients[c].state = "connected"

(***************************************************************************)
(* Common implementation.  Each operator reads the adapter's fields of the *)
(* state it is evaluated in; a handler that calls it after assigning       *)
(* fields uses it primed.  `ok' is the result PubSubClient reports for a   *)
(* publish or a subscribe; a caller that discards the result of            *)
(* mqttPublish passes TRUE.                                                *)
(***************************************************************************)
\* connected()
IsConnected ==
    IF asyncClient_ # NullPtr THEN Connected(asyncClient_)
    ELSE IF hasPubSub /\ pubSubClient_ # NullPtr THEN pubSubConnected
    ELSE FALSE

\* subscribeToCommandTopic(): the calls it makes.
SubscribeToCommandTopic ==
    IF asyncClient_ # NullPtr
    THEN << Call(asyncClient_, "subscribe", cmdTopic_, config_.qos, FALSE, "", 0) >>
    ELSE IF hasPubSub /\ pubSubClient_ # NullPtr
    THEN << Call(pubSubClient_, "subscribe", cmdTopic_, NoQos, FALSE, "", 0) >>
    ELSE << >>

\* mqttPublish(topic, payload, len, qos, retain): its result and its calls.
MqttPublish(topic, payload, len, qos, retain, ok) ==
    IF asyncClient_ # NullPtr /\ Connected(asyncClient_)
    THEN [ ret |-> TRUE,
           calls |-> << Call(asyncClient_, "publish", topic, qos, retain, payload, len) >> ]
    ELSE IF hasPubSub /\ pubSubClient_ # NullPtr /\ pubSubConnected
    THEN [ ret |-> ok,
           calls |-> << Call(pubSubClient_, "publish", topic, NoQos, retain, payload, len) >> ]
    ELSE [ ret |-> FALSE, calls |-> << >> ]

\* publishBirth(): the calls it makes.
PublishBirth ==
    IF ~config_.enableStatus THEN << >>
    ELSE MqttPublish(statusTopic_, config_.birthPayload,
                     Strlen(config_.birthPayload), LWT_QOS,
                     config_.retainStatus, TRUE).calls

\* Mutant: a plain prefix match, without the separator.
IsMoleTopic_PrefixOnly(topic) ==
    LET base == Base(config_)
    IN  StrncmpEq(topic, base, Strlen(base))

\* Mutant: only topics under the device's own prefix count as ESPMole topics.
IsMoleTopic_OwnDeviceOnly(topic) ==
    LET prefix == Base(config_) \o "/" \o deviceId_
    IN  StrncmpEq(topic, prefix, Strlen(prefix)) /\ CharAt(topic, Strlen(prefix)) = "/"

\* isMoleTopic(topic)
IsMoleTopic(topic) ==
    LET base == Base(config_)
        baseLen == Strlen(base)
    IN  StrncmpEq(topic, base, baseLen) /\ CharAt(topic, baseLen) = "/"

\* The request handed to Dispatcher::ingest.
PEER_MQTT == "0xFFFF0001"
Ingest(payload, len) ==
    [ peer |-> PEER_MQTT, payload |-> payload, len |-> len,
      capacity |-> RESPONSE_BUFFER_SIZE ]

\* Mutant: the response is echoed on the command topic.
ProcessCommand_OnCommandTopic(payload, len, response) ==
    IF ~dispatcher_ THEN [ ingest |-> << >>, response |-> "", calls |-> << >> ]
    ELSE LET respLen == Len(response)
         IN  [ ingest |-> << Ingest(payload, len) >>,
               response |-> response,
               calls |-> IF respLen > 0
                         THEN MqttPublish(cmdTopic_, response, respLen,
                                          config_.qos, FALSE, TRUE).calls
                         ELSE << >> ]

\* Mutant: the response is published whatever its length.
ProcessCommand_PublishesEmpty(payload, len, response) ==
    IF ~dispatcher_ THEN [ ingest |-> << >>, response |-> "", calls |-> << >> ]
    ELSE [ ingest |-> << Ingest(payload, len) >>,
           response |-> response,
           calls |-> MqttPublish(respTopic_, response, Len(response),
                                 config_.qos, FALSE, TRUE).calls ]

\* processCommand(payload, len), the dispatcher answering `response':
\* the requests passed to the dispatcher and the calls made.
ProcessCommand(payload, len, response) ==
    IF ~dispatcher_ THEN [ ingest |-> << >>, response |-> "", calls |-> << >> ]
    ELSE LET respLen == Len(response)
         IN  [ ingest |-> << Ingest(payload, len) >>,
               response |-> response,
               calls |-> IF respLen > 0
                         THEN MqttPublish(respTopic_, response, respLen,
                                          config_.qos, FALSE, TRUE).calls
                         ELSE << >> ]

\* One invocation of the user callback.
UserCall(topic, payload, len) == [ topic |-> topic, payload |-> payload, len |-> len ]

\* Mutant: a command counts as handled only if its response was published.
HandleMessage_ReturnsPublished(topic, payload, len, response) ==
    LET rec == [ Idle EXCEPT !.op = "handleMessage", !.topic = topic,
                            !.payload = payload, !.len = len, !.total = len ]
    IN  IF ~StrcmpEq(topic, cmdTopic_)
        THEN IF IsMoleTopic(topic)
             THEN [ rec EXCEPT !.ret = TRUE ]
             ELSE [ rec EXCEPT !.ret = FALSE,
                              !.user = IF userCallback_
                                       THEN << UserCall(topic, payload, len) >>
                                       ELSE << >> ]
        ELSE LET pc == ProcessCommand(payload, len, response)
             IN  [ rec EXCEPT !.ret = (pc.calls # << >>), !.ingest = pc.ingest,
                             !.response = pc.response, !.calls = pc.calls ]

\* handleMessage(topic, payload, len): the record of what it did.
HandleMessage(topic, payload, len, response) ==
    LET rec == [ Idle EXCEPT !.op = "handleMessage", !.topic = topic,
                            !.payload = payload, !.len = len, !.total = len ]
    IN  IF ~StrcmpEq(topic, cmdTopic_)
        THEN IF IsMoleTopic(topic)
             THEN [ rec EXCEPT !.ret = TRUE ]
             ELSE [ rec EXCEPT !.ret = FALSE,
                              !.user = IF userCallback_
                                       THEN << UserCall(topic, payload, len) >>
                                       ELSE << >> ]
        ELSE LET pc == ProcessCommand(payload, len, response)
             IN  [ rec EXCEPT !.ret = TRUE, !.ingest = pc.ingest,
                             !.response = pc.response, !.calls = pc.calls ]

(***************************************************************************)
(* Inputs of the operations.                                               *)
(***************************************************************************)
InboundTopics ==
    { "espmole/test123/cmd", "espmole/DEADBEEF0001/cmd", "home/test123/cmd",
      "espmole/device/cmd", "home/sensor/temp", "espmo", "espmole",
      "espmole2/x", "" }
Payloads == { "ping" }
\* What the dispatcher writes to the response buffer; its length is the
\* value ingest() returns.
Responses == { "", "pong" }
UserTopics == { "home/sensor/temp" }
QosLevels == { 0, 1 }
Peers == { "0xFFFF0001", "0x00000007" }

(***************************************************************************)
(* The AsyncMqttClient, as far as the adapter relies on it: connect()      *)
(* starts a connection unless one is under way or established.             *)
(***************************************************************************)
ClientConnect(c) ==
    IF clients[c].state = "disconnected"
    THEN [ clients EXCEPT ![c].state = "connecting" ]
    ELSE clients

(***************************************************************************)
(* Standalone mode.                                                        *)
(***************************************************************************)
\* Mutant: begin() registers the last-will after it has called connect().
Begin_ConnectsBeforeWill ==
    /\ IsNull(config_.broker) \/ nOwned < MaxOwned
    /\ standaloneMode_' = TRUE
    /\ BuildTopics
    /\ UNCHANGED << dispatcher_, config_, pubSubClient_, userCallback_,
                    wasConnected_, lastReconnectAttempt_, hasPubSub,
                    pubSubConnected, millis, histVars >>
    /\ IF IsNull(config_.broker)
       THEN /\ UNCHANGED << asyncClient_, ownsClient_, clients, nOwned >>
            /\ last' = Did("begin", << >>)
       ELSE LET c == Owned(nOwned + 1)
            IN  /\ asyncClient_' = c
                /\ ownsClient_' = TRUE
                /\ nOwned' = nOwned + 1
                /\ clients' = [ clients EXCEPT
                                  ![c] = [ state |-> "connecting",
                                           will |-> IF config_.enableStatus
                                                    THEN << Will' >> ELSE << >> ] ]
                /\ last' = Did("begin",
                        << Setup(c, "setServer", Deref(config_.broker)) >>
                        \o (IF ~IsNull(config_.username)
                            THEN << Setup(c, "setCredentials", Deref(config_.username)) >>
                            ELSE << >>)
                        \o << Setup(c, "setClientId",
                                    IF ~IsNull(config_.clientId)
                                    THEN Deref(config_.clientId) ELSE deviceId_') >>
                        \o << Setup(c, "onConnect", ""), Setup(c, "onDisconnect", ""),
                              Setup(c, "onMessage", ""), Setup(c, "connect", "") >>
                        \o (IF config_.enableStatus THEN << SetWillCall(asyncClient_)' >> ELSE << >>))

\* begin()
Begin ==
    /\ IsNull(config_.broker) \/ nOwned < MaxOwned
    /\ standaloneMode_' = TRUE
    /\ BuildTopics
    /\ UNCHANGED << dispatcher_, config_, pubSubClient_, userCallback_,
                    wasConnected_, lastReconnectAttempt_, hasPubSub,
                    pubSubConnected, millis, histVars >>
    /\ IF IsNull(config_.broker)
       THEN /\ UNCHANGED << asyncClient_, ownsClient_, clients, nOwned >>
            /\ last' = Did("begin", << >>)
       ELSE LET c == Owned(nOwned + 1)
            IN  /\ asyncClient_' = c
                /\ ownsClient_' = TRUE
                /\ nOwned' = nOwned + 1
                /\ clients' = [ clients EXCEPT
                                  ![c] = [ state |-> "connecting",
                                           will |-> IF config_.enableStatus
                                                    THEN << Will' >> ELSE << >> ] ]
                /\ last' = Did("begin",
                        << Setup(c, "setServer", Deref(config_.broker)) >>
                        \o (IF ~IsNull(config_.username)
                            THEN << Setup(c, "setCredentials", Deref(config_.username)) >>
                            ELSE << >>)
                        \o << Setup(c, "setClientId",
                                    IF ~IsNull(config_.clientId)
                                    THEN Deref(config_.clientId) ELSE deviceId_') >>
                        \o (IF config_.enableStatus THEN << SetWillCall(asyncClient_)' >> ELSE << >>)
                        \o << Setup(c, "onConnect", ""), Setup(c, "onDisconnect", ""),
                              Setup(c, "onMessage", ""), Setup(c, "connect", "") >>)

\* Mutant: the deadline lastReconnectAttempt_ + interval is compared with now.
ReconnectDue_Deadline(now, lastAttempt, interval) ==
    now >= (lastAttempt + interval) % Modulus

\* Mutant: the sum lastReconnectAttempt_ + interval is formed in a wider type
\* and compared with now.
ReconnectDue_WideSum(now, lastAttempt, interval) ==
    now >= lastAttempt + interval

\* now - lastReconnectAttempt_ >= config_.reconnectInterval, in the unsigned
\* arithmetic of the counter.
ReconnectDue(now, lastAttempt, interval) ==
    ((now - lastAttempt) % Modulus) >= interval

\* poll()
Poll ==
    /\ UNCHANGED << dispatcher_, config_, standaloneMode_, topicVars,
                    asyncClient_, pubSubClient_, ownsClient_, userCallback_,
                    hasPubSub, pubSubConnected, nOwned, millis >>
    /\ IF ~standaloneMode_ \/ asyncClient_ = NullPtr
       THEN /\ UNCHANGED << wasConnected_, lastReconnectAttempt_, clients,
                            sincePollAttempt >>
            /\ last' = Did("poll", << >>)
       ELSE LET isConnected == Connected(asyncClient_)
                attempt == ~isConnected
                           /\ ReconnectDue(millis, lastReconnectAttempt_,
                                           config_.reconnectInterval)
            IN  /\ wasConnected_' = IF ~isConnected /\ wasConnected_
                                    THEN FALSE ELSE wasConnected_
                /\ lastReconnectAttempt_' = IF attempt THEN millis
                                            ELSE lastReconnectAttempt_
                /\ clients' = IF attempt THEN ClientConnect(asyncClient_)
                              ELSE clients
                /\ sincePollAttempt' = IF attempt THEN 0 ELSE sincePollAttempt
                /\ last' = IF attempt
                           THEN [ Did("poll", << Setup(asyncClient_, "connect", "") >>)
                                    EXCEPT !.gap = sincePollAttempt ]
                           ELSE Did("poll", << >>)

\* One millisecond passes.
Tick ==
    /\ millis' = (millis + 1) % Modulus
    /\ sincePollAttempt' = IF sincePollAttempt = -1 THEN -1
                           ELSE Min(sincePollAttempt + 1, MaxInterval + 1)
    /\ last' = Did("tick", << >>)
    /\ UNCHANGED << adapterVars, hasPubSub, clients, pubSubConnected, nOwned >>

\* onAsyncConnect(sessionPresent), called by a client begin() created when
\* its connection is established.
OnAsyncConnect(c) ==
    /\ clients[c].state = "connecting"
    /\ clients' = [ clients EXCEPT ![c].state = "connected" ]
    /\ wasConnected_' = TRUE
    /\ UNCHANGED << dispatcher_, config_, standaloneMode_, topicVars,
                    asyncClient_, pubSubClient_, ownsClient_, userCallback_,
                    lastReconnectAttempt_, hasPubSub, pubSubConnected, nOwned,
                    millis, histVars >>
    /\ last' = Did("onAsyncConnect", SubscribeToCommandTopic' \o PublishBirth')

\* onAsyncDisconnect(reason), called by a client begin() created when its
\* connection is lost or its connect attempt fails.
OnAsyncDisconnect(c) ==
    /\ clients[c].state \in {"connecting", "connected"}
    /\ clients' = [ clients EXCEPT ![c].state = "disconnected" ]
    /\ wasConnected_' = FALSE
    /\ last' = Did("onAsyncDisconnect", << >>)
    /\ UNCHANGED << dispatcher_, config_, standaloneMode_, topicVars,
                    asyncClient_, pubSubClient_, ownsClient_, userCallback_,
                    lastReconnectAttempt_, hasPubSub, pubSubConnected, nOwned,
                    millis, histVars >>

\* Mutant: only a non-zero start index marks a fragment.
OnAsyncMessage_IndexOnly(c, topic, payload, index, total, response) ==
    /\ clients[c].state = "connected"
    /\ LET len == Len(payload)
       IN  last' = IF index # 0
                   THEN [ Idle EXCEPT !.op = "onAsyncMessage", !.topic = topic,
                                      !.payload = payload, !.len = len,
                                      !.index = index, !.total = total ]
                   ELSE [ HandleMessage(topic, payload, len, response)
                            EXCEPT !.op = "onAsyncMessage", !.total = total ]
    /\ UNCHANGED << adapterVars, envVars, histVars >>

\* onAsyncMessage(topic, payload, len, index, total), called by a connected
\* client begin() created.
OnAsyncMessage(c, topic, payload, index, total, response) ==
    /\ clients[c].state = "connected"
    /\ LET len == Len(payload)
       IN  last' = IF index # 0 \/ len # total
                   THEN [ Idle EXCEPT !.op = "onAsyncMessage", !.topic = topic,
                                      !.payload = payload, !.len = len,
                                      !.index = index, !.total = total ]
                   ELSE [ HandleMessage(topic, payload, len, response)
                            EXCEPT !.op = "onAsyncMessage" ]
    /\ UNCHANGED << adapterVars, envVars, histVars >>

(***************************************************************************)
(* Integration mode.                                                       *)
(***************************************************************************)
\* Mutant: the last-will is registered at the configured QoS.
AttachToAsync_WillAtConfigQos ==
    /\ asyncClient_' = ExtAsync
    /\ ownsClient_' = FALSE
    /\ standaloneMode_' = FALSE
    /\ BuildTopics
    /\ UNCHANGED << dispatcher_, config_, pubSubClient_, userCallback_,
                    wasConnected_, lastReconnectAttempt_, hasPubSub,
                    pubSubConnected, nOwned, millis, histVars >>
    /\ IF config_.enableStatus
       THEN /\ clients' = [ clients EXCEPT
                              ![ExtAsync].will = << [ Will' EXCEPT !.qos = config_.qos ] >> ]
            /\ last' = Did("attachToAsync",
                           << [ SetWillCall(ExtAsync)' EXCEPT !.qos = config_.qos ] >>)
       ELSE /\ UNCHANGED clients
            /\ last' = Did("attachToAsync", << >>)

\* attachTo(AsyncMqttClient* client)
AttachToAsync ==
    /\ asyncClient_' = ExtAsync
    /\ ownsClient_' = FALSE
    /\ standaloneMode_' = FALSE
    /\ BuildTopics
    /\ UNCHANGED << dispatcher_, config_, pubSubClient_, userCallback_,
                    wasConnected_, lastReconnectAttempt_, hasPubSub,
                    pubSubConnected, nOwned, millis, histVars >>
    /\ IF config_.enableStatus
       THEN /\ clients' = [ clients EXCEPT ![ExtAsync].will = << Will' >> ]
            /\ last' = Did("attachToAsync", << SetWillCall(ExtAsync)' >>)
       ELSE /\ UNCHANGED clients
            /\ last' = Did("attachToAsync", << >>)

\* attachTo(PubSubClient* client)
AttachToPubSub ==
    /\ UNCHANGED << dispatcher_, config_, asyncClient_, userCallback_,
                    wasConnected_, lastReconnectAttempt_, envVars, histVars >>
    /\ IF hasPubSub
       THEN /\ pubSubClient_' = ExtPubSub
            /\ ownsClient_' = FALSE
            /\ standaloneMode_' = FALSE
            /\ BuildTopics
            /\ last' = Did("attachToPubSub",
                           SubscribeToCommandTopic' \o PublishBirth')
       ELSE /\ UNCHANGED << pubSubClient_, ownsClient_, standaloneMode_, topicVars >>
            /\ last' = Did("attachToPubSub", << >>)

\* onMqttConnect(), called by the host from the onConnect callback of its
\* AsyncMqttClient.
OnMqttConnect ==
    /\ clients[ExtAsync].state = "connecting"
    /\ clients' = [ clients EXCEPT ![ExtAsync].state = "connected" ]
    /\ UNCHANGED << adapterVars, hasPubSub, pubSubConnected, nOwned, millis,
                    histVars >>
    /\ last' = Did("onMqttConnect", SubscribeToCommandTopic' \o PublishBirth')

\* handleMessage(topic, payload, len), called by the host.
HandleMessageCall(topic, payload, response) ==
    /\ last' = HandleMessage(topic, payload, Len(payload), response)
    /\ UNCHANGED << adapterVars, envVars, histVars >>

\* setUserCallback(cb)
SetUserCallback(cb) ==
    /\ userCallback_' = cb
    /\ last' = Did("setUserCallback", << >>)
    /\ UNCHANGED << dispatcher_, config_, standaloneMode_, topicVars,
                    asyncClient_, pubSubClient_, ownsClient_, wasConnected_,
                    lastReconnectAttempt_, envVars, histVars >>

(***************************************************************************)
(* The host's own clients: it connects and disconnects them itself.        *)
(***************************************************************************)
\* The host connects its AsyncMqttClient after attachTo(), as attachTo()
\* asks.
HostConnect ==
    /\ asyncClient_ = ExtAsync
    /\ clients[ExtAsync].state = "disconnected"
    /\ clients' = [ clients EXCEPT ![ExtAsync].state = "connecting" ]
    /\ last' = Did("hostConnect", << >>)
    /\ UNCHANGED << adapterVars, hasPubSub, pubSubConnected, nOwned, millis,
                    histVars >>

HostDisconnect ==
    /\ clients[ExtAsync].state \in {"connecting", "connected"}
    /\ clients' = [ clients EXCEPT ![ExtAsync].state = "disconnected" ]
    /\ last' = Did("hostDisconnect", << >>)
    /\ UNCHANGED << adapterVars, hasPubSub, pubSubConnected, nOwned, millis,
                    histVars >>

HostPubSub ==
    /\ hasPubSub
    /\ pubSubConnected' = ~pubSubConnected
    /\ last' = Did("hostPubSub", << >>)
    /\ UNCHANGED << adapterVars, hasPubSub, clients, nOwned, millis, histVars >>

(***************************************************************************)
(* ITransport and the additional public methods.                           *)
(***************************************************************************)
Outward(op, topic, payload, len, result) ==
    /\ last' = [ Idle EXCEPT !.op = op, !.topic = topic, !.payload = payload,
                             !.len = len, !.total = len, !.ret = result.ret,
                             !.calls = result.calls ]
    /\ UNCHANGED << adapterVars, envVars, histVars >>

\* Mutant: the peer selects the topic.
Send_PeerSelectsTopic(peer, data, ok) ==
    Outward("send", peer, data, Len(data),
            MqttPublish(IF peer = PEER_MQTT THEN respTopic_ ELSE eventTopic_,
                        data, Len(data), config_.qos, FALSE, ok))

\* send(peer, data, len)
Send(peer, data, ok) ==
    Outward("send", peer, data, Len(data),
            MqttPublish(respTopic_, data, Len(data), config_.qos, FALSE, ok))

\* broadcast(data, len)
Broadcast(data, ok) ==
    Outward("broadcast", "", data, Len(data),
            MqttPublish(eventTopic_, data, Len(data), config_.qos, FALSE, ok))

\* publish(topic, payload, len, qos, retain)
Publish(topic, payload, qos, retain, ok) ==
    Outward("publish", topic, payload, Len(payload),
            MqttPublish(topic, payload, Len(payload), qos, retain, ok))

\* subscribe(topic, qos): its result and its calls.
SubscribeResult(topic, qos, ok) ==
    IF asyncClient_ # NullPtr /\ Connected(asyncClient_)
    THEN [ ret |-> TRUE,
           calls |-> << Call(asyncClient_, "subscribe", topic, qos, FALSE, "", 0) >> ]
    ELSE IF hasPubSub /\ pubSubClient_ # NullPtr /\ pubSubConnected
    THEN [ ret |-> ok,
           calls |-> << Call(pubSubClient_, "subscribe", topic, NoQos, FALSE, "", 0) >> ]
    ELSE [ ret |-> FALSE, calls |-> << >> ]

Subscribe(topic, qos, ok) ==
    Outward("subscribe", topic, "", 0, SubscribeResult(topic, qos, ok))

(***************************************************************************)
(* Destruction.                                                            *)
(***************************************************************************)
\* ~MqttTransport(): a client the adapter owns is disconnected and deleted.
Destructor ==
    /\ UNCHANGED << dispatcher_, config_, standaloneMode_, topicVars,
                    pubSubClient_, ownsClient_, userCallback_, wasConnected_,
                    lastReconnectAttempt_, hasPubSub, pubSubConnected, nOwned,
                    millis, histVars >>
    /\ IF ownsClient_ /\ asyncClient_ # NullPtr
       THEN /\ clients' = [ clients EXCEPT ![asyncClient_].state = "destroyed" ]
            /\ asyncClient_' = NullPtr
            /\ last' = Did("destroy", << Setup(asyncClient_, "disconnect", ""),
                                         Setup(asyncClient_, "delete", "") >>)
       ELSE /\ UNCHANGED << clients, asyncClient_ >>
            /\ last' = Did("destroy", << >>)

(***************************************************************************)
(* The specification.                                                      *)
(***************************************************************************)
\* begin() creates no client, or one of the first MaxBegin.
FirstBegins == IsNull(config_.broker) \/ nOwned < MaxBegin

\* The operations that change the adapter or its AsyncMqttClients.
Lifecycle ==
    \/ FirstBegins /\ Begin
    \/ Poll
    \/ \E c \in OwnedClients : OnAsyncConnect(c)
    \/ \E c \in OwnedClients : OnAsyncDisconnect(c)
    \/ AttachToAsync
    \/ AttachToPubSub
    \/ OnMqttConnect
    \/ HostConnect
    \/ HostDisconnect

\* Inbound messages and the outward operations.  They change nothing but
\* `last', so each is taken from the states the other operations reach.
MessagingOps ==
    { "onAsyncMessage", "handleMessage", "send", "broadcast", "publish", "subscribe" }
AtRest == last.op \notin MessagingOps
\* index and total - len of a delivery; <<0, 0>> is a complete message.
FragmentInputs == { <<0, 0>>, <<1, 0>>, <<0, 1>>, <<1, 1>> }
Messaging ==
    \/ \E c \in OwnedClients, t \in InboundTopics, p \in Payloads,
          f \in FragmentInputs, r \in Responses :
            AtRest /\ OnAsyncMessage(c, t, p, f[1], Len(p) + f[2], r)
    \/ \E t \in InboundTopics, p \in Payloads, r \in Responses :
            AtRest /\ HandleMessageCall(t, p, r)
    \/ \E peer \in Peers, d \in Payloads, ok \in BOOLEAN :
            AtRest /\ Send(peer, d, ok)
    \/ \E d \in Payloads, ok \in BOOLEAN : AtRest /\ Broadcast(d, ok)
    \/ \E t \in UserTopics, p \in Payloads, q \in QosLevels, rt \in BOOLEAN,
          ok \in BOOLEAN : AtRest /\ Publish(t, p, q, rt, ok)
    \/ \E t \in UserTopics, q \in QosLevels, ok \in BOOLEAN :
            AtRest /\ Subscribe(t, q, ok)

Next ==
    \/ Lifecycle
    \/ HostPubSub
    \/ \E cb \in BOOLEAN : SetUserCallback(cb)
    \/ Messaging
Spec == Init /\ [][Next]_vars

\* The timed specification: the lifecycle with the clock running.
NextClock == Lifecycle \/ Tick
SpecClock == InitClock /\ [][NextClock]_vars

\* The adapter's life from construction to destruction: the operations
\* that change the adapter or its clients, until the destructor has run.
Alive == last.op # "destroy"
NextLife ==
    \/ Alive /\ Begin
    \/ Alive /\ Poll
    \/ \E c \in OwnedClients : Alive /\ OnAsyncConnect(c)
    \/ \E c \in OwnedClients : Alive /\ OnAsyncDisconnect(c)
    \/ Alive /\ AttachToAsync
    \/ Alive /\ AttachToPubSub
    \/ Alive /\ OnMqttConnect
    \/ Alive /\ HostConnect
    \/ Alive /\ HostDisconnect
    \/ Alive /\ HostPubSub
    \/ Alive /\ Destructor
SpecLife == InitLife /\ [][NextLife]_vars

\* Standalone mode driven by the host's loop(): poll() is called in every
\* iteration and at most one millisecond passes between two calls, while
\* the broker accepts, refuses or drops connections as it likes.
TickAfterPoll == last.op = "poll" /\ Tick
NextRetry ==
    \/ FirstBegins /\ Begin
    \/ Poll
    \/ TickAfterPoll
    \/ \E c \in OwnedClients : OnAsyncConnect(c)
    \/ \E c \in OwnedClients : OnAsyncDisconnect(c)
SpecRetry ==
    InitClock /\ [][NextRetry]_vars /\ WF_vars(Poll) /\ WF_vars(TickAfterPoll)

(***************************************************************************)
(* The claims.                                                             *)
(***************************************************************************)
\* The last operation ran handleMessage: the host called it, or
\* onAsyncMessage did for a complete message.
HandledMessage ==
    \/ last.op = "handleMessage"
    \/ last.op = "onAsyncMessage" /\ last.index = 0 /\ last.len = last.total

\* The topic begins with the base string immediately followed by '/'.
InNamespace(topic) ==
    LET base == Base(config_)
    IN  /\ Len(topic) > Len(base)
        /\ SubSeq(topic, 1, Len(base) + 1) = base \o "/"

\* The publishes among the calls of the last operation.
Publishes == SelectSeq(last.calls, LAMBDA c : c.fn = "publish")

\* C1: handleMessage returns true for every message whose topic equals the
\* command topic, whatever the dispatcher returns, connected or not.
C1_CommandAlwaysHandled ==
    (HandledMessage /\ last.topic = cmdTopic_) => last.ret = TRUE

\* C1 witness: a command was handled while disconnected, the dispatcher's
\* response was not published, and true was returned.
C1_Witness ==
    /\ last.op = "handleMessage" /\ last.topic = cmdTopic_ /\ cmdTopic_ # ""
    /\ last.ingest # << >> /\ last.response # "" /\ last.calls = << >>
    /\ ~IsConnected /\ last.ret = TRUE

\* C2: when a message arrives on the command topic and the dispatcher
\* returns responseLen = 0, nothing is published (no call at all is made on
\* a client) and handleMessage returns true.
C2_EmptyResponseNotPublished ==
    (HandledMessage /\ last.topic = cmdTopic_ /\ last.ingest # << >>
       /\ Len(last.response) = 0)
    => (last.calls = << >> /\ last.ret = TRUE)

\* C2 witness: a connected adapter got responseLen = 0 for a command.
C2_Witness ==
    /\ HandledMessage /\ last.topic = cmdTopic_ /\ cmdTopic_ # ""
    /\ last.ingest # << >> /\ Len(last.response) = 0
    /\ IsConnected /\ last.calls = << >> /\ last.ret = TRUE

\* C3, as claimed: a non-zero response to a message on the command topic
\* (of an activated namespace) is published exactly once, to the response
\* topic, at the configured QoS, not retained.
C3_ResponseAlwaysPublished ==
    (HandledMessage /\ last.topic = cmdTopic_ /\ cmdTopic_ # ""
       /\ last.ingest # << >> /\ Len(last.response) > 0)
    => /\ Len(last.calls) = 1
       /\ last.calls[1].fn = "publish"
       /\ last.calls[1].topic = respTopic_
       /\ last.calls[1].qos = config_.qos
       /\ last.calls[1].retain = FALSE
       /\ last.calls[1].payload = last.response
       /\ last.calls[1].len = Len(last.response)

\* C3, amended: when connected() is true, a non-zero response to a command
\* is published exactly once, to the response topic, not retained, and an
\* AsyncMqttClient is given the configured QoS (PubSubClient::publish takes
\* none).
C3_ResponsePublishedWhenConnected ==
    (HandledMessage /\ last.topic = cmdTopic_ /\ last.ingest # << >>
       /\ Len(last.response) > 0 /\ IsConnected)
    => /\ Len(last.calls) = 1
       /\ last.calls[1].fn = "publish"
       /\ last.calls[1].topic = respTopic_
       /\ last.calls[1].qos = IF last.calls[1].client = ExtPubSub
                              THEN NoQos ELSE config_.qos
       /\ last.calls[1].retain = FALSE
       /\ last.calls[1].payload = last.response
       /\ last.calls[1].len = Len(last.response)

\* C3 witness: a connected standalone adapter published the response of a
\* command it received from its client, at QoS 1.
C3_Witness ==
    /\ last.op = "onAsyncMessage" /\ last.topic = cmdTopic_
    /\ last.response = "pong" /\ IsConnected /\ config_.qos = 1
    /\ Len(last.calls) = 1 /\ last.calls[1].topic = "espmole/test123/resp"

\* C4: a topic that begins with "{base}/" but is not the command topic is
\* absorbed: handleMessage returns true, the dispatcher and the user
\* callback are not called and nothing is published.
C4_OwnOtherAbsorbed ==
    (HandledMessage /\ InNamespace(last.topic) /\ last.topic # cmdTopic_)
    => /\ last.ret = TRUE
       /\ last.ingest = << >>
       /\ last.user = << >>
       /\ last.calls = << >>

\* C4 witness: with deviceId test123 and a user callback registered,
\* another device's command topic was absorbed.
C4_Witness ==
    /\ HandledMessage /\ last.topic = "espmole/device/cmd"
    /\ cmdTopic_ = "espmole/test123/cmd" /\ userCallback_ /\ dispatcher_
    /\ last.ret = TRUE /\ last.user = << >>

\* C5, as claimed: for a topic outside the base namespace handleMessage
\* calls the user callback once with the unmodified topic, payload and
\* length (nothing without a callback), returns false, does not call the
\* dispatcher and publishes nothing.
C5_ForeignForwarded ==
    (HandledMessage /\ ~InNamespace(last.topic))
    => /\ last.ret = FALSE
       /\ last.user = IF userCallback_
                       THEN << UserCall(last.topic, last.payload, Len(last.payload)) >>
                       ELSE << >>
       /\ last.ingest = << >>
       /\ last.calls = << >>

\* C6: a topic is in the adapter's namespace only if the base string is
\* immediately followed by '/': the base itself, a proper prefix of it, the
\* base followed by another character and a topic under another base are
\* not, and handleMessage, for a topic that is not the command topic and
\* not in the namespace, returns false (Foreign).
C6_NamespaceNeedsSeparator ==
    /\ \A t \in InboundTopics : IsMoleTopic(t) => InNamespace(t)
    /\ ~IsMoleTopic(Base(config_))
    /\ \A n \in 0..(Len(Base(config_)) - 1) :
          ~IsMoleTopic(SubSeq(Base(config_), 1, n))
    /\ ~IsMoleTopic(Base(config_) \o "2/x")
    /\ (HandledMessage /\ ~InNamespace(last.topic) /\ last.topic # cmdTopic_)
         => last.ret = FALSE

\* C6 witness: under base espmole, "espmole2/x" went to the user callback.
C6_Witness ==
    /\ HandledMessage /\ last.topic = "espmole2/x" /\ Base(config_) = "espmole"
    /\ last.ret = FALSE /\ last.user # << >>

\* The last operation was onAsyncMessage with a fragment: a non-zero start
\* index, or a chunk length different from the total length.
Fragment ==
    last.op = "onAsyncMessage" /\ (last.index # 0 \/ last.len # last.total)

\* C7: a fragment is dropped: the dispatcher and the user callback are not
\* called, nothing is published, and no field of the adapter changes (no
\* part of the payload is kept).
C7_FragmentDropped ==
    [][ Fragment' => /\ last'.ingest = << >>
                     /\ last'.user = << >>
                     /\ last'.calls = << >>
                     /\ adapterVars' = adapterVars ]_vars

\* C7 witness: a first chunk (index 0, total > len) on the command topic
\* was dropped by a connected adapter with a dispatcher.
C7_Witness ==
    /\ Fragment /\ last.index = 0 /\ last.topic = cmdTopic_ /\ dispatcher_
    /\ IsConnected /\ last.ingest = << >> /\ last.calls = << >>

\* C8: while disconnected, poll issues connect attempts no more often than
\* once per reconnect interval, also across a wrap of the millisecond
\* counter: a poll that issues an attempt does so at least
\* reconnectInterval after the previous attempt poll issued.
C8_ReconnectRateLimited ==
    (last.op = "poll" /\ last.calls # << >> /\ last.gap # -1)
    => last.gap >= config_.reconnectInterval

\* C8 witness: poll issued an attempt exactly one interval after its
\* previous one, the counter having wrapped in between.
C8_Witness ==
    /\ last.op = "poll" /\ last.calls # << >>
    /\ config_.reconnectInterval > 0
    /\ last.gap = config_.reconnectInterval
    /\ millis < last.gap

\* C9, as claimed: with presence enabled, a connect-event (onAsyncConnect in
\* standalone mode, onMqttConnect in integration mode) publishes exactly
\* once to the status topic, the birth payload with the configured retain
\* flag.
C9_BirthPerConnectEvent ==
    (last.op \in {"onAsyncConnect", "onMqttConnect"} /\ config_.enableStatus)
    => /\ Len(Publishes) = 1
       /\ Publishes[1].topic = statusTopic_
       /\ Publishes[1].payload = config_.birthPayload
       /\ Publishes[1].retain = config_.retainStatus

\* C10, as claimed: send, broadcast, publish and subscribe called while
\* connected() is false return false and make no call on a client.
C10_NothingSentWhenDisconnected ==
    (last.op \in {"send", "broadcast", "publish", "subscribe"} /\ ~IsConnected)
    => (last.ret = FALSE /\ last.calls = << >>)

\* The topic send and broadcast publish to.
OutwardTopic == IF last.op = "send" THEN respTopic_ ELSE eventTopic_

\* C11, as claimed: what send publishes goes to the response topic whatever
\* the peer, what broadcast publishes goes to the event topic, both at the
\* configured QoS (a publish without a QoS argument is one at QoS 0) and
\* not retained.
C11_SendBroadcastAtConfiguredQos ==
    (last.op \in {"send", "broadcast"} /\ last.calls # << >>)
    => /\ Len(last.calls) = 1
       /\ last.calls[1].fn = "publish"
       /\ last.calls[1].topic = OutwardTopic
       /\ last.calls[1].payload = last.payload
       /\ last.calls[1].retain = FALSE
       /\ \/ last.calls[1].qos = config_.qos
          \/ last.calls[1].qos = NoQos /\ config_.qos = 0

\* C11, amended: the same, the configured QoS being passed to an
\* AsyncMqttClient only (PubSubClient::publish is given no QoS).
C11_SendBroadcastTopics ==
    (last.op \in {"send", "broadcast"} /\ last.calls # << >>)
    => /\ Len(last.calls) = 1
       /\ last.calls[1].fn = "publish"
       /\ last.calls[1].topic = OutwardTopic
       /\ last.calls[1].payload = last.payload
       /\ last.calls[1].retain = FALSE
       /\ last.calls[1].qos = IF last.calls[1].client = ExtPubSub
                              THEN NoQos ELSE config_.qos

\* C11 witness: send to a peer other than PEER_MQTT published to the
\* response topic at the configured QoS 1.
C11_Witness ==
    /\ last.op = "send" /\ last.topic # PEER_MQTT /\ config_.qos = 1
    /\ Len(last.calls) = 1 /\ last.calls[1].topic = "espmole/test123/resp"
    /\ last.calls[1].qos = 1 /\ last.ret = TRUE

\* begin() was the adapter's latest activation and found no broker
\* address: the topics are built, the mode flag says standalone.
BegunWithoutBroker ==
    standaloneMode_ /\ cmdTopic_ # "" /\ IsNull(config_.broker)

\* C12, as claimed: in standalone mode without a broker address begin()
\* creates no client and attempts no connection, and afterwards poll
\* issues no connect attempt, connected() is false and send, broadcast,
\* publish and subscribe return false.
C12_NoBrokerInert ==
    BegunWithoutBroker
    => /\ asyncClient_ \notin OwnedClients
       /\ ~IsConnected
       /\ last.op \in {"begin", "poll"} => last.calls = << >>
       /\ last.op \in {"send", "broadcast", "publish", "subscribe"}
            => (last.ret = FALSE /\ last.calls = << >>)

\* C13, as claimed: when the adapter has been destroyed, every client
\* begin() created has been disconnected and destroyed by it, and at no
\* time does the adapter disconnect or destroy a client supplied through
\* attachTo.
C13_OwnershipDiscipline ==
    /\ last.op = "destroy"
         => \A c \in OwnedClients :
               clients[c].state # "none" => clients[c].state = "destroyed"
    /\ clients[ExtAsync].state # "destroyed"
    /\ \A i \in 1..Len(last.calls) :
          last.calls[i].fn \in {"disconnect", "delete"}
            => last.calls[i].client \in OwnedClients

\* begin() or attachTo() has activated the adapter: its topics are built.
Activated == cmdTopic_ # ""

\* C14, as claimed: once the adapter is activated no operation, a later
\* begin or attachTo included, changes the mode flag or the ownership flag.
C14_ModeFixedOnceEntered ==
    [][ Activated => /\ standaloneMode_' = standaloneMode_
                     /\ ownsClient_' = ownsClient_ ]_vars

\* begin() has created the adapter's client (standalone mode, a broker is
\* configured).
Begun == standaloneMode_ /\ asyncClient_ \in OwnedClients
\* The last operation was a poll that issued a connect attempt.
PollAttempt == last.op = "poll" /\ last.calls # << >>

\* C15: in standalone mode with a broker, while poll keeps being called
\* and time advances, a disconnected adapter issues connect attempts again
\* and again (from any moment on, an attempt follows unless the adapter is
\* connected), and when the broker accepts the connection of the
\* adapter's client, connected() is true.
C15_RetriedForever ==
    /\ Begun ~> (PollAttempt \/ IsConnected)
    /\ [][ (Begun /\ OnAsyncConnect(asyncClient_))
             => (IsConnected' /\ wasConnected_') ]_vars

\* C15 witness: a poll issued an attempt a full interval after an earlier
\* one, the client having failed to connect in between.
C15_Witness ==
    /\ Begun /\ PollAttempt /\ last.gap = config_.reconnectInterval
    /\ config_.reconnectInterval = MaxInterval
    /\ ~IsConnected /\ ~wasConnected_

\* The last operation registered the last-will on client c: the status
\* topic, the offline payload, QoS 1, the configured retain flag.
RegisteredWill(c) ==
    \E i \in 1..Len(last.calls) :
        /\ last.calls[i].fn = "setWill"
        /\ last.calls[i].client = c
        /\ last.calls[i].topic = statusTopic_
        /\ last.calls[i].payload = config_.lwtPayload
        /\ last.calls[i].qos = 1
        /\ last.calls[i].retain = config_.retainStatus

\* C16, as claimed: with presence enabled, attachTo registers the
\* last-will on the supplied client, whichever type of client it is.
C16_AttachRegistersWill ==
    /\ (last.op = "attachToAsync" /\ config_.enableStatus)
         => RegisteredWill(ExtAsync)
    /\ (last.op = "attachToPubSub" /\ hasPubSub /\ config_.enableStatus)
         => RegisteredWill(ExtPubSub)

\* C16, amended: with presence enabled, attachTo(AsyncMqttClient*)
\* registers the last-will on the supplied client (and makes no other
\* call); attachTo(PubSubClient*) registers none.
C16_AsyncAttachRegistersWill ==
    /\ (last.op = "attachToAsync" /\ config_.enableStatus)
         => /\ RegisteredWill(ExtAsync)
            /\ Len(last.calls) = 1
            /\ clients[ExtAsync].will # << >>
            /\ clients[ExtAsync].will[1].topic = statusTopic_
            /\ clients[ExtAsync].will[1].qos = 1
    /\ last.op = "attachToPubSub"
         => \A i \in 1..Len(last.calls) : last.calls[i].fn # "setWill"

\* C16 witness: attachTo(AsyncMqttClient*) registered the last-will at
\* QoS 1 with the configured QoS 0.
C16_Witness ==
    /\ last.op = "attachToAsync" /\ config_.enableStatus /\ config_.qos = 0
    /\ RegisteredWill(ExtAsync)
    /\ last.calls[1].topic = "espmole/DEADBEEF0001/status"

\* C17, as claimed: attachTo(AsyncMqttClient*) stores the reference,
\* subscribes to the command topic and, with presence enabled and the
\* client connected, publishes the birth message.
C17_AsyncAttachSubscribesAndBirths ==
    last.op = "attachToAsync"
    => /\ asyncClient_ = ExtAsync
       /\ \E i \in 1..Len(last.calls) :
             /\ last.calls[i].fn = "subscribe"
             /\ last.calls[i].client = ExtAsync
             /\ last.calls[i].topic = cmdTopic_
       /\ (config_.enableStatus /\ IsConnected)
            => \E i \in 1..Len(last.calls) :
                  /\ last.calls[i].fn = "publish"
                  /\ last.calls[i].topic = statusTopic_
                  /\ last.calls[i].payload = config_.birthPayload

\* The device id of the configuration: the configured one, or the MAC
\* address DE:AD:BE:EF:00:01 in upper-case hexadecimal.
ConfiguredId ==
    IF IsNull(config_.deviceId) THEN "DEADBEEF0001" ELSE Deref(config_.deviceId)
\* The device id fits deviceId_ and the longest topic fits its buffer.
WithinLimits ==
    /\ Len(ConfiguredId) <= DEVICE_ID_MAX_LEN - 1
    /\ Len(Base(config_)) + 1 + Len(ConfiguredId) + Len("/status")
         <= TOPIC_MAX_LEN - 1
Prefix == Base(config_) \o "/" \o ConfiguredId

\* C18: for a base and a device id within the length limits, activation
\* produces exactly {base}/{deviceId}/cmd, /resp, /status and /event, and
\* building the namespace again leaves the topics as they are.
C18_TopicStructure ==
    /\ [] ( (Activated /\ WithinLimits)
             => /\ deviceId_ = ConfiguredId
                /\ cmdTopic_ = Prefix \o "/cmd"
                /\ respTopic_ = Prefix \o "/resp"
                /\ statusTopic_ = Prefix \o "/status"
                /\ eventTopic_ = Prefix \o "/event" )
    /\ [][ Activated => topicVars' = topicVars ]_vars

\* C18 witness: begin() and then attachTo() built the topics of base
\* espmole and device id test123 twice.
C18_Witness ==
    /\ last.op = "attachToAsync" /\ nOwned = 1
    /\ cmdTopic_ = "espmole/test123/cmd"
    /\ respTopic_ = "espmole/test123/resp"
    /\ statusTopic_ = "espmole/test123/status"
    /\ eventTopic_ = "espmole/test123/event"

\* C19, as claimed: the adapter never holds both an AsyncMqttClient and a
\* PubSubClient.
C19_AtMostOneClient ==
    ~(asyncClient_ # NullPtr /\ pubSubClient_ # NullPtr)

\* The i-th call of the last operation is a connect() that comes after the
\* last-will (status topic, offline payload) was registered on the same
\* client: earlier in the same operation, or by an earlier operation.
WillBeforeConnect(i) ==
    LET c == last.calls[i].client
        IsWill(k) == /\ last.calls[k].fn = "setWill"
                     /\ last.calls[k].client = c
    IN  IF \E k \in 1..Len(last.calls) : IsWill(k)
        THEN \E k \in 1..(i - 1) :
                /\ IsWill(k)
                /\ last.calls[k].topic = statusTopic_
                /\ last.calls[k].payload = config_.lwtPayload
        ELSE /\ clients[c].will # << >>
             /\ clients[c].will[1].topic = statusTopic_
             /\ clients[c].will[1].payload = config_.lwtPayload

\* C20: with presence enabled, every connect() the adapter issues on a
\* client (in begin and in poll) comes after setWill on that client with
\* the status topic and the offline payload.
C20_WillBeforeConnect ==
    config_.enableStatus
    => \A i \in 1..Len(last.calls) :
          last.calls[i].fn = "connect" => WillBeforeConnect(i)

\* C20 witness: poll reconnected a client on which begin() had registered
\* the last-will.
C20_Witness ==
    /\ config_.enableStatus /\ PollAttempt /\ asyncClient_ \in OwnedClients
    /\ clients[asyncClient_].will # << >>
    /\ clients[asyncClient_].will[1].topic = "espmole/test123/status"

\* C21: once the namespace is activated, no operation changes the device
\* id or any of the four topics: the events, the messaging operations and
\* setUserCallback do not write them, and a repeated begin or attachTo
\* writes the same values.
C21_TopicsImmutable ==
    [][ Activated => /\ deviceId_' = deviceId_
                     /\ cmdTopic_' = cmdTopic_
                     /\ respTopic_' = respTopic_
                     /\ statusTopic_' = statusTopic_
                     /\ eventTopic_' = eventTopic_ ]_vars

\* C21 witness: begin() built the topics again after
\* attachTo(PubSubClient*) had activated the namespace.
C21_Witness ==
    /\ last.op = "begin" /\ asyncClient_ \in OwnedClients
    /\ pubSubClient_ = ExtPubSub
    /\ deviceId_ = "DEADBEEF0001"
    /\ cmdTopic_ = "espmole/DEADBEEF0001/cmd"
    /\ eventTopic_ = "espmole/DEADBEEF0001/event"


\* The subscribe the connect handler issues first: the command topic at the
\* configured QoS.
ResubscribesFirst ==
    /\ last.calls # << >>
    /\ last.calls[1].fn = "subscribe"
    /\ last.calls[1].topic = cmdTopic_
    /\ last.calls[1].qos = config_.qos

\* C22: in standalone mode every connect-event leaves the adapter Connected
\* and issues a subscribe to the command topic at the configured QoS before
\* the birth publish, which follows when presence is enabled; a
\* disconnect-event leaves the adapter Disconnected and calls no client.
C22_ConnectEventResubscribes ==
    /\ (standaloneMode_ /\ last.op = "onAsyncConnect") =>
          /\ wasConnected_
          /\ IsConnected
          /\ ResubscribesFirst
          /\ \A i \in 2..Len(last.calls) : last.calls[i].fn = "publish"
          /\ config_.enableStatus =>
                /\ Len(last.calls) = 2
                /\ last.calls[2].topic = statusTopic_
                /\ last.calls[2].payload = config_.birthPayload
    /\ (standaloneMode_ /\ last.op = "onAsyncDisconnect") =>
          /\ ~wasConnected_
          /\ last.calls = << >>


\* C23: before any activation (the command topic buffer is still empty)
\* handleMessage passes no payload to the dispatcher, whatever the inbound
\* topic, the empty string included.
C23_UnactivatedNeverDispatches ==
    (HandledMessage /\ ~Activated) => last.ingest = << >>


\* begin() has just issued its connect attempt.
BeginAttempt ==
    /\ last.op = "begin"
    /\ \E i \in 1..Len(last.calls) : last.calls[i].fn = "connect"

\* C24: any two consecutive connect attempts in standalone mode, the one
\* begin() issues counted with those poll() issues, are at least
\* reconnectInterval milliseconds apart: a poll that issues an attempt does
\* so no sooner than that after poll's previous attempt, and a poll that
\* runs right after begin()'s attempt, before any time has passed, issues
\* none unless the interval is zero.
C24_AttemptsSpaced ==
    /\ [](PollAttempt =>
            (last.gap # -1 => last.gap >= config_.reconnectInterval))
    /\ [][(BeginAttempt /\ Poll /\ millis' = millis /\ PollAttempt')
            => config_.reconnectInterval = 0]_vars

\* C25: the adapter calls connect() only on a client it created itself:
\* whatever attachTo and begin calls came before, every connect() an
\* operation issues is on a client of begin()'s making.
C25_ConnectsOnlyOwnClient ==
    \A i \in 1..Len(last.calls) :
        last.calls[i].fn = "connect" => last.calls[i].client \in OwnedClients

=============================================================================
